---- MODULE Spec2Model ----
(***************************************************************************)
(* Module resolution of rustfmt: src/formatting/modules.rs (ModResolver).  *)
(*                                                                         *)
(* The resolver is a single-threaded recursive depth-first traversal.  It  *)
(* is modelled as a state machine with an explicit call stack: one frame   *)
(* per active call of visit_mod_from_ast, visit_mod_outside_ast,           *)
(* visit_cfg_if, visit_sub_mod and visit_sub_mod_inner, and one action per *)
(* function, running from the frame's position to its next call or return. *)
(*                                                                         *)
(* Option<T> is a sequence of length 0 (None) or 1 (Some).  A path is a    *)
(* sequence of components.  Result<(), E> in flight is the variable err.   *)
(***************************************************************************)
EXTENDS Naturals, Sequences, FiniteSets, TLC

VARIABLES
    pc,          \* "start" | "visit" | "done": position in visit_crate
    recursive,   \* ModResolver.recursive
    krate,       \* krate.items: the root AST handed to visit_crate
    directory,   \* ModResolver.directory: [path, ownership]
    file_map,    \* ModResolver.file_map: set of [key, module] entries
    parsed,      \* the parse session's set of parsed (loaded) files
    stack,       \* call stack below visit_crate, top at the end
    err,         \* the Result a returning callee hands to its caller
    outcome,     \* what visit_crate returned
    parse_log,   \* every parse_file_as_module call so far: [path, tag]
    peek_log,    \* every peek_sub_mod call so far: [item, dir, tag, paths, ..];
                 \* list: the positions of the callers of the item list
                 \* the module is declared in, which tell the lists apart
    peeked,      \* the last peek_sub_mod call in full, and the keys it added
    descended    \* files whose parsed content has been descended into

vars == <<pc, recursive, krate, directory, file_map, parsed, stack, err,
          outcome, parse_log, peek_log, peeked, descended>>

(***************************************************************************)
(* Bounds of the model.                                                    *)
(***************************************************************************)
\* longest item list of the root crate
MaxItems == 2
\* deepest nesting of inline modules in the root crate
MaxDepth == 2

(***************************************************************************)
(* Options and paths.                                                      *)
(***************************************************************************)
None == <<>>
Some(x) == <<x>>
IsSome(o) == o # <<>>
Unwrap(o) == o[1]

\* Path::parent
Parent(path) == SubSeq(path, 1, Len(path) - 1)
\* PathBuf::push / Path::join with a relative path
Push(path, rel) == path \o rel
\* the file name of module name n under the first convention
RsFile(n) == n \o ".rs"

Range(s) == {s[i] : i \in 1..Len(s)}

(***************************************************************************)
(* AST items.  ast::ItemKind::Mod carries ast::ModKind: Unloaded for       *)
(* `mod foo;` and Loaded(items, Inline::Yes, _) for `mod foo { .. }`.      *)
(* The attributes the resolver reads are kept as three fields: skip (the   *)
(* suppress-formatting marker), path (the first #[path = ".."]) and cfg    *)
(* (the literal paths inside conditional attributes, in order).            *)
(***************************************************************************)
Unloaded == [k |-> "Unloaded", items |-> <<>>, inline |-> "NA"]
Loaded(items, inline) == [k |-> "Loaded", items |-> items, inline |-> inline]

ModItem(name, skip, path, cfg, kind) ==
    [tag |-> "mod", name |-> name, skip |-> skip, path |-> path, cfg |-> cfg,
     kind |-> kind, mods |-> <<>>]

\* `mod name;`
Decl(name) == ModItem(name, FALSE, None, <<>>, Unloaded)
\* `#[rustfmt::skip] mod name;`
SkipDecl(name) == ModItem(name, TRUE, None, <<>>, Unloaded)
\* `#[path = "p"] mod name;`
PathDecl(name, p) == ModItem(name, FALSE, Some(p), <<>>, Unloaded)
\* `#[cfg_attr(.., path = "p1")] #[cfg_attr(.., path = "p2")] mod name;`
CfgDecl(name, ps) == ModItem(name, FALSE, None, ps, Unloaded)
\* `mod name { items }`
InlineMod(name, items) == ModItem(name, FALSE, None, <<>>, Loaded(items, "Yes"))
\* `cfg_if! { .. }` whose branches declare the modules mods
CfgIf(mods) ==
    [tag |-> "cfg_if", name |-> "cfg_if", skip |-> FALSE, path |-> None,
     cfg |-> <<>>, kind |-> Unloaded, mods |-> mods]
\* any item that is neither a module nor a cfg_if invocation
Other ==
    [tag |-> "other", name |-> "f", skip |-> FALSE, path |-> None,
     cfg |-> <<>>, kind |-> Unloaded, mods |-> <<>>]

(***************************************************************************)
(* The file system.  A path is absent, unreadable (it exists but cannot be *)
(* read, e.g. a directory), malformed (readable, syntax error) or holds    *)
(* the items of a module.  One disk holds every kind of file, so that the  *)
(* declarations of the crate pick the case by the name they declare.       *)
(***************************************************************************)
Absent == [st |-> "absent", items |-> <<>>]
Unreadable == [st |-> "unreadable", items |-> <<>>]
Malformed == [st |-> "malformed", items |-> <<>>]
OkFile(items) == [st |-> "ok", items |-> items]

\* the crate root's file; the resolver starts in its parent directory
RootFile == <<"src", "lib.rs">>
RootDir == <<"src">>

\* src/cyc.rs names itself, the crate root and src/q.rs, which names it back
CycItems ==
    << PathDecl("me", <<"cyc.rs">>),
       PathDecl("q", <<"q.rs">>),
       CfgDecl("again", << <<"cyc.rs">> >>) >>
QItems ==
    << PathDecl("cyc", <<"cyc.rs">>),
       PathDecl("up", <<"lib.rs">>) >>
\* src/x.rs (first convention, stem x): mod a { mod b { mod c; } }
XItems == << InlineMod("a", << InlineMod("b", << Decl("c") >>) >>) >>
\* src/m/mod.rs (second convention)
MItems ==
    << CfgIf(<< Decl("inner") >>), Other, InlineMod("a", << Decl("c") >>),
       Decl("inner") >>
\* src/deep.rs: its first declaration cannot be resolved
DeepItems == << Decl("nofile"), Decl("tcp") >>

Disk(p) ==
    CASE p = RootFile                    -> OkFile(krate)
      [] p = <<"src", "net.rs">>         -> OkFile(<< Decl("tcp") >>)
      [] p = <<"src", "net", "tcp.rs">>  -> OkFile(<<>>)
      [] p = <<"src", "x.rs">>           -> OkFile(XItems)
      [] p = <<"src", "m", "mod.rs">>    -> OkFile(MItems)
      [] p = <<"src", "m", "inner.rs">>  -> OkFile(<< Other >>)
      [] p = <<"src", "deep.rs">>        -> OkFile(DeepItems)
      [] p = <<"src", "deep", "tcp.rs">> -> OkFile(<<>>)
      [] p = <<"src", "cyc.rs">>         -> OkFile(CycItems)
      [] p = <<"src", "q.rs">>           -> OkFile(QItems)
      [] p = <<"src", "feat_a.rs">>      -> OkFile(<<>>)
      [] p = <<"src", "feat_b.rs">>      -> OkFile(<< Other >>)
      [] p = <<"src", "bad.rs">>         -> Malformed
      [] p = <<"src", "un.rs">>          -> Unreadable
      \* every directory below src holds a module file c.rs
      [] Len(p) >= 2 /\ p[1] = "src" /\ p[Len(p)] = "c.rs" -> OkFile(<<>>)
      [] OTHER -> Absent

(***************************************************************************)
(* The crates explored: every item list of at most MaxItems items drawn    *)
(* from one family of items.  Inline modules nest at most MaxDepth deep.   *)
(***************************************************************************)
NestNames == <<"a", "b", "d", "e", "g">>

\* mod a { mod b { .. { body } } }: levels k..d of the nest
RECURSIVE Nest(_, _, _)
Nest(k, d, body) ==
    IF k > d THEN body
    ELSE << InlineMod(NestNames[k], Nest(k + 1, d, body)) >>

\* declarations resolved by the naming conventions alone
ConventionItems ==
    { Decl("net"), Decl("x"), Decl("m"), Decl("deep"), Decl("nofile"),
      Decl("bad"), Decl("un"), SkipDecl("net") }

\* declarations with a path override, and declarations they alias or cycle with
OverrideItems ==
    { PathDecl("net", <<"feat_a.rs">>), PathDecl("net", <<"bad.rs">>),
      PathDecl("net", <<"gone.rs">>), PathDecl("o", <<"net.rs">>),
      ModItem("net", FALSE, Some(<<"feat_a.rs">>), << <<"feat_b.rs">> >>, Unloaded),
      Decl("net"), Decl("feat_a"), Decl("cyc"),
      CfgDecl("feat", << <<"feat_a.rs">>, <<"feat_b.rs">> >>) }

\* declarations with conditional paths
ConditionalItems ==
    { CfgDecl("feat", << <<"feat_a.rs">>, <<"feat_b.rs">> >>),
      CfgDecl("feat", << <<"feat_a.rs">>, <<"feat_a.rs">> >>),
      CfgDecl("nofile", << <<"bad.rs">> >>),
      CfgDecl("nofile", << <<"un.rs">>, <<"un.rs">> >>),
      CfgDecl("net", << <<"net.rs">> >>),
      CfgDecl("net", << <<"lib.rs">> >>),
      CfgDecl("bad", << <<"feat_a.rs">> >>),
      CfgDecl("un", << <<"feat_a.rs">> >>) }

\* inline modules
InlineItems ==
    { Nest(1, d, body)[1] : d \in 1..MaxDepth,
                            body \in { << Other >>, << Decl("c") >> } }
    \cup { ModItem("a", TRUE, None, <<>>, Loaded(<< Decl("c") >>, "Yes")),
           ModItem("a", FALSE, Some(<<"net">>), <<>>,
                   Loaded(<< Decl("tcp") >>, "Yes")),
           ModItem("a", FALSE, Some(<<"net">>), <<>>, Loaded(<< Other >>, "Yes")),
           Decl("net"), Other }

\* cfg_if! invocations
CfgIfItems ==
    { CfgIf(<< Decl("net"), Decl("m") >>),
      CfgIf(<< Decl("nofile"), Decl("net") >>),
      CfgIf(<< InlineMod("a", << Decl("c") >>) >>),
      Decl("net"), Decl("nofile"), InlineMod("a", << Decl("c") >>), Other }

Families ==
    { ConventionItems, OverrideItems, ConditionalItems, InlineItems, CfgIfItems }

RECURSIVE ItemLists(_, _)
ItemLists(items, n) ==
    IF n = 0 THEN { <<>> }
    ELSE ItemLists(items, n - 1)
         \cup { Append(l, it) :
                  l \in { m \in ItemLists(items, n - 1) : Len(m) = n - 1 },
                  it \in items }

Crates == UNION { ItemLists(family, MaxItems) : family \in Families }

(***************************************************************************)
(* Module<'a>.  The Cow of ast_mod_kind, ast_item and items is kept,       *)
(* because visit_sub_mod_after_directory_update matches on it.  span tells *)
(* a module parsed from a file (the file's span) from a module built from  *)
(* a declaring item (the item's span).                                     *)
(***************************************************************************)
Borrowed(v) == [cow |-> "Borrowed", v |-> v]
Owned(v) == [cow |-> "Owned", v |-> v]

FileSpan(path) == [of |-> "file", path |-> path]
ItemSpan == [of |-> "item", path |-> <<>>]

\* Module::new
ModuleNew(mod_span, ast_mod_kind, ast_item, mod_items) ==
    [ast_mod_kind |-> ast_mod_kind, ast_item |-> ast_item,
     items |-> mod_items, span |-> mod_span]

\* Module::name
ModuleName(m) == IF IsSome(m.ast_item) THEN Unwrap(m.ast_item).v.name ELSE ""
\* Module::outer_attrs: the attributes of the declaring item, none without one
OuterAttrs(m) ==
    IF IsSome(m.ast_item)
    THEN [skip |-> Unwrap(m.ast_item).v.skip, path |-> Unwrap(m.ast_item).v.path,
          cfg |-> Unwrap(m.ast_item).v.cfg]
    ELSE [skip |-> FALSE, path |-> None, cfg |-> <<>>]

\* DirectoryOwnership
OwnedDir(relative) == [own |-> "Owned", relative |-> relative]
UnownedViaBlock == [own |-> "UnownedViaBlock", relative |-> None]

\* ModuleResolutionError
NoErr == [module |-> "", kind |-> "none", file |-> <<>>]
ResolutionError(module, kind, file) ==
    [module |-> module, kind |-> kind, file |-> file]

\* SubModKind; External holds its one (path, ownership, module) in mods
NoKind == [k |-> "none", mods |-> <<>>, item |-> None]
External(mod_path, ownership, sub_mod) ==
    [k |-> "External",
     mods |-> << [path |-> mod_path, ownership |-> ownership, module |-> sub_mod] >>,
     item |-> None]
MultiExternal(mods) == [k |-> "MultiExternal", mods |-> mods, item |-> None]
Internal(item) == [k |-> "Internal", mods |-> <<>>, item |-> Some(item)]

\* Result<Option<SubModKind>, ModuleResolutionError>
OkNone == [tag |-> "None", kind |-> NoKind, err |-> NoErr]
OkSome(kind) == [tag |-> "Some", kind |-> kind, err |-> NoErr]
Failed(e) == [tag |-> "Err", kind |-> NoKind, err |-> e]

(***************************************************************************)
(* Collaborators outside modules.rs: the parser and the parse session,     *)
(* the attribute scanners and the two item predicates.                     *)
(***************************************************************************)
\* utils::contains_skip
contains_skip(attrs) == attrs.skip
\* items::is_mod_decl: a declaration without an inline body
is_mod_decl(item) == ~(item.kind.k = "Loaded" /\ item.kind.inline = "Yes")
\* Parser::submod_path_from_attr: <current dir>/<override>
submod_path_from_attr(attrs, dir_path) ==
    IF IsSome(attrs.path) THEN Some(Push(dir_path, Unwrap(attrs.path))) ELSE None
\* visitor::PathVisitor::paths: the literal conditional paths, in order
PathVisitorPaths(attrs) == attrs.cfg
\* visitor::CfgIfVisitor::mods: the module items in the branches of cfg_if!
CfgIfVisitorMods(item) == item.mods
\* Path::exists
Exists(path) == Disk(path).st # "absent"
\* ParseSess::is_file_parsed
is_file_parsed(sess, path) == path \in sess
\* Parser::parse_file_as_module: Ok(items), ParseError (syntax) or any other
\* failure (the file is missing or cannot be read)
ParseTag(path) ==
    CASE Disk(path).st = "ok" -> "Ok"
      [] Disk(path).st = "malformed" -> "ParseError"
      [] OTHER -> "Other"
\* the session after parse_file_as_module: a file that could be read is loaded
AfterParse(sess, path) ==
    IF Disk(path).st \in {"ok", "malformed"} THEN sess \cup {path} ELSE sess
\* ParseSess::default_submod_path: <dir>/[relative/]name.rs, else
\* <dir>/[relative/]name/mod.rs, else an error
default_submod_path(id, relative, dir_path) ==
    LET base == Push(dir_path, relative)
        default_path == Push(base, << RsFile(id) >>)
        secondary_path == Push(base, << id, "mod.rs" >>)
    IN  IF Exists(default_path)
        THEN [ok |-> TRUE, file_path |-> default_path,
              dir_ownership |-> OwnedDir(Some(id))]
        ELSE IF Exists(secondary_path)
        THEN [ok |-> TRUE, file_path |-> secondary_path,
              dir_ownership |-> OwnedDir(None)]
        ELSE [ok |-> FALSE, file_path |-> <<>>, dir_ownership |-> OwnedDir(None)]

\* one entry of the log of calls into the collaborators
Op(op, path) == [op |-> op, path |-> path]
ParseCall(path) == [path |-> path, tag |-> ParseTag(path)]

\* the module a successful parse of path builds for declaration sub_mod
ParsedModule(path, sub_mod) ==
    ModuleNew(FileSpan(path), Some(Owned(Unloaded)), sub_mod.ast_item,
              Owned(Disk(path).items))

(***************************************************************************)
(* File resolution.  Each operator returns, besides its result, the parse  *)
(* session after the parser calls it made and the log of those calls.      *)
(***************************************************************************)
\* ModResolver::find_mods_outside_of_ast, from candidate i on
RECURSIVE ScanCandidates(_, _, _, _, _)
ScanCandidates(paths, i, sub_mod, dir, acc) ==
    IF i > Len(paths) THEN acc
    ELSE
      LET actual_path == Push(dir.path, paths[i])
          seen == Append(acc.ops, Op("exists", actual_path))
          asked == Append(seen, Op("is_file_parsed", actual_path))
          called == Append(asked, Op("parse", actual_path))
      IN  IF ~Exists(actual_path)
          THEN ScanCandidates(paths, i + 1, sub_mod, dir,
                   [acc EXCEPT !.ops = seen])
          ELSE IF is_file_parsed(acc.sess, actual_path)
          THEN \* the file is already parsed: use the declaration as it is
               ScanCandidates(paths, i + 1, sub_mod, dir,
                   [acc EXCEPT !.ops = asked,
                               !.mods = Append(@, [path |-> actual_path,
                                                   ownership |-> OwnedDir(None),
                                                   module |-> sub_mod])])
          ELSE IF ParseTag(actual_path) = "Ok"
          THEN ScanCandidates(paths, i + 1, sub_mod, dir,
                   [ops |-> called,
                    sess |-> AfterParse(acc.sess, actual_path),
                    mods |-> Append(acc.mods,
                                [path |-> actual_path,
                                 ownership |-> OwnedDir(None),
                                 module |-> ParsedModule(actual_path, sub_mod)])])
          ELSE \* Err(..) => continue
               ScanCandidates(paths, i + 1, sub_mod, dir,
                   [acc EXCEPT !.ops = called,
                               !.sess = AfterParse(@, actual_path)])

\* the scan of the conditional paths without regard to the files the session
\* has parsed before
find_mods_outside_of_ast_unchecked(sub_mod, dir, sess) ==
    LET scan == ScanCandidates(PathVisitorPaths(OuterAttrs(sub_mod)), 1,
                               sub_mod, dir,
                               [mods |-> <<>>, sess |-> {}, ops |-> <<>>])
    IN  [scan EXCEPT !.sess = @ \cup sess]

\* ModResolver::find_mods_outside_of_ast, lines 528-581
find_mods_outside_of_ast(sub_mod, dir, sess) ==
    ScanCandidates(PathVisitorPaths(OuterAttrs(sub_mod)), 1, sub_mod, dir,
                   [mods |-> <<>>, sess |-> sess, ops |-> <<>>])

\* the override branch without the is_file_parsed check
FindByOverrideUnchecked(sub_mod, path, sess) ==
    [res |->
       CASE ParseTag(path) = "Ok" ->
              OkSome(External(path, OwnedDir(None), ParsedModule(path, sub_mod)))
         [] ParseTag(path) = "ParseError" ->
              Failed(ResolutionError(ModuleName(sub_mod), "ParseError", path))
         [] OTHER ->
              Failed(ResolutionError(ModuleName(sub_mod), "NotFound", path)),
     sess |-> AfterParse(sess, path),
     ops |-> << Op("parse", path) >>]

\* find_external_module, lines 382-413: the module carries a path override
FindByOverride(sub_mod, path, sess) ==
    IF is_file_parsed(sess, path)
    THEN [res |-> OkNone, sess |-> sess,
          ops |-> << Op("is_file_parsed", path) >>]
    ELSE [res |->
            CASE ParseTag(path) = "Ok" ->
                   OkSome(External(path, OwnedDir(None),
                                   ParsedModule(path, sub_mod)))
              [] ParseTag(path) = "ParseError" ->
                   Failed(ResolutionError(ModuleName(sub_mod), "ParseError", path))
              [] OTHER ->
                   Failed(ResolutionError(ModuleName(sub_mod), "NotFound", path)),
          sess |-> AfterParse(sess, path),
          ops |-> << Op("is_file_parsed", path), Op("parse", path) >>]

\* the conditional and default paths with the last arm (no default file:
\* NotFound) taken whatever the scan of the conditional paths found
FindByConventionNoFallback(sub_mod, dir, sess) ==
    LET scan == find_mods_outside_of_ast(sub_mod, dir, sess)
    IN  [res |-> Failed(ResolutionError(ModuleName(sub_mod), "NotFound", dir.path)),
         sess |-> scan.sess, ops |-> scan.ops]

\* the conditional and default paths with every failure of the default
\* file's parse tolerated once a conditional path was resolved
FindByConventionTolerant(sub_mod, dir, sess) ==
    LET scan == find_mods_outside_of_ast(sub_mod, dir, sess)
        relative == IF dir.ownership.own = "Owned"
                    THEN dir.ownership.relative ELSE None
        lookup == default_submod_path(ModuleName(sub_mod), relative, dir.path)
    IN  IF lookup.ok /\ scan.mods # <<>>
        THEN [res |-> OkSome(MultiExternal(scan.mods)),
              sess |-> AfterParse(scan.sess, lookup.file_path),
              ops |-> Append(scan.ops, Op("parse", lookup.file_path))]
        ELSE [res |-> Failed(ResolutionError(ModuleName(sub_mod), "NotFound",
                                             dir.path)),
              sess |-> scan.sess, ops |-> scan.ops]

\* find_external_module, lines 415-504: conditional paths, then the default path
FindByConvention(sub_mod, dir, sess) ==
    LET relative == IF dir.ownership.own = "Owned"
                    THEN dir.ownership.relative ELSE None
        scan == find_mods_outside_of_ast(sub_mod, dir, sess)
        mods_outside_ast == scan.mods
        lookup == default_submod_path(ModuleName(sub_mod), relative, dir.path)
        looked == Append(scan.ops,
                     Op("default_submod_path",
                        Push(Push(dir.path, relative), << ModuleName(sub_mod) >>)))
        file_path == lookup.file_path
        dir_ownership == lookup.dir_ownership
        outside_mods_empty == mods_outside_ast = <<>>
        should_insert == ~(\E m \in Range(mods_outside_ast) : m.path = file_path)
        declared == [path |-> file_path, ownership |-> dir_ownership,
                     module |-> sub_mod]
        with_declared == IF should_insert
                         THEN Append(mods_outside_ast, declared)
                         ELSE mods_outside_ast
        fresh == [path |-> file_path, ownership |-> dir_ownership,
                  module |-> ParsedModule(file_path, sub_mod)]
        with_fresh == IF should_insert
                      THEN Append(Append(mods_outside_ast, fresh), declared)
                      ELSE Append(mods_outside_ast, fresh)
        asked == Append(looked, Op("is_file_parsed", file_path))
        called == Append(asked, Op("parse", file_path))
    IN  IF lookup.ok
        THEN IF is_file_parsed(scan.sess, file_path)
             THEN [res |-> IF outside_mods_empty THEN OkNone
                           ELSE OkSome(MultiExternal(with_declared)),
                   sess |-> scan.sess, ops |-> asked]
             ELSE [res |->
                     CASE ParseTag(file_path) = "Ok" /\ outside_mods_empty ->
                            OkSome(External(file_path, dir_ownership,
                                            ParsedModule(file_path, sub_mod)))
                       [] ParseTag(file_path) = "Ok" /\ ~outside_mods_empty ->
                            OkSome(MultiExternal(with_fresh))
                       [] ParseTag(file_path) = "ParseError" ->
                            Failed(ResolutionError(ModuleName(sub_mod),
                                                   "ParseError", file_path))
                       [] ParseTag(file_path) = "Other" /\ outside_mods_empty ->
                            Failed(ResolutionError(ModuleName(sub_mod),
                                                   "NotFound", file_path))
                       [] OTHER -> OkSome(MultiExternal(with_declared)),
                   sess |-> AfterParse(scan.sess, file_path), ops |-> called]
        ELSE [res |-> IF ~outside_mods_empty
                      THEN OkSome(MultiExternal(mods_outside_ast))
                      ELSE Failed(ResolutionError(ModuleName(sub_mod),
                                                  "NotFound", dir.path)),
              sess |-> scan.sess, ops |-> looked]

\* find_external_module without the early return of the path override
find_external_module_no_override(sub_mod, dir, sess) ==
    FindByConvention(sub_mod, dir, sess)

\* ModResolver::find_external_module
find_external_module(sub_mod, dir, sess) ==
    LET path == submod_path_from_attr(OuterAttrs(sub_mod), dir.path)
    IN  IF IsSome(path)
        THEN FindByOverride(sub_mod, Unwrap(path), sess)
        ELSE FindByConvention(sub_mod, dir, sess)

\* peek_sub_mod looking for a file for inline modules too
peek_sub_mod_always_external(sub_mod, dir, sess) ==
    IF contains_skip(OuterAttrs(sub_mod))
    THEN [res |-> OkNone, sess |-> sess, ops |-> <<>>]
    ELSE find_external_module(sub_mod, dir, sess)

\* peek_sub_mod without the early return for the skip marker
peek_sub_mod_ignoring_skip(sub_mod, dir, sess) ==
    IF IsSome(sub_mod.ast_item) /\ is_mod_decl(Unwrap(sub_mod.ast_item).v)
    THEN find_external_module(sub_mod, dir, sess)
    ELSE [res |-> OkSome(Internal(Unwrap(sub_mod.ast_item))),
          sess |-> sess, ops |-> <<>>]

\* ModResolver::peek_sub_mod
peek_sub_mod(sub_mod, dir, sess) ==
    IF contains_skip(OuterAttrs(sub_mod))
    THEN [res |-> OkNone, sess |-> sess, ops |-> <<>>]
    ELSE IF IsSome(sub_mod.ast_item) /\ is_mod_decl(Unwrap(sub_mod.ast_item).v)
    THEN find_external_module(sub_mod, dir, sess)
    ELSE [res |-> OkSome(Internal(Unwrap(sub_mod.ast_item))),
          sess |-> sess, ops |-> <<>>]

(***************************************************************************)
(* FileModMap: a BTreeMap, kept as the set of its (key, module) entries.   *)
(***************************************************************************)
Keys(fm) == { e.key : e \in fm }
\* an insertion that does not look for an entry of the key
OrInsertBlind(fm, key, module) == fm \cup { [key |-> key, module |-> module] }

\* BTreeMap::entry(key).or_insert(module)
OrInsert(fm, key, module) ==
    IF \E e \in fm : e.key = key THEN fm
    ELSE fm \cup { [key |-> key, module |-> module] }
\* BTreeMap::insert(key, module)
MapInsert(fm, key, module) ==
    { e \in fm : e.key # key } \cup { [key |-> key, module |-> module] }

RECURSIVE InsertMods(_, _, _)
InsertMods(fm, mods, i) ==
    IF i > Len(mods) THEN fm
    ELSE InsertMods(OrInsert(fm, mods[i].path, mods[i].module), mods, i + 1)

\* insert_sub_mod with the MultiExternal arm left to `_ => {}`
insert_sub_mod_external_only(fm, sub_mod_kind) ==
    IF sub_mod_kind.k = "External"
    THEN InsertMods(fm, sub_mod_kind.mods, 1)
    ELSE fm

\* ModResolver::insert_sub_mod
insert_sub_mod(fm, sub_mod_kind) ==
    IF sub_mod_kind.k \in {"External", "MultiExternal"}
    THEN InsertMods(fm, sub_mod_kind.mods, 1)
    ELSE fm

(***************************************************************************)
(* Directory context.                                                      *)
(***************************************************************************)
\* find_path_value: the first #[path = ".."] of the attributes
find_path_value(item) == item.path

\* push_inline_mod_directory pushing the module's name only and leaving the
\* pending offset where it is
push_inline_mod_directory_keeps_offset(dir, item) ==
    IF IsSome(find_path_value(item))
    THEN [path |-> Push(dir.path, Unwrap(find_path_value(item))),
          ownership |-> OwnedDir(None)]
    ELSE [path |-> Push(dir.path, << item.name >>), ownership |-> dir.ownership]

\* ModResolver::push_inline_mod_directory
push_inline_mod_directory(dir, item) ==
    IF IsSome(find_path_value(item))
    THEN [path |-> Push(dir.path, Unwrap(find_path_value(item))),
          ownership |-> OwnedDir(None)]
    ELSE IF dir.ownership.own = "Owned"
    THEN \* relative.take(): the pending offset, if any, goes first
         [path |-> Push(Push(dir.path, dir.ownership.relative), << item.name >>),
          ownership |-> OwnedDir(None)]
    ELSE [path |-> Push(dir.path, << item.name >>), ownership |-> dir.ownership]

(***************************************************************************)
(* The call stack.                                                         *)
(***************************************************************************)
NoModule == ModuleNew(ItemSpan, None, None, Owned(<<>>))
NoDirectory == [path |-> <<>>, ownership |-> UnownedViaBlock]

\* a call of visit_mod_from_ast, visit_mod_outside_ast or visit_cfg_if,
\* about to look at items[i]
LoopFrame(fn, items) ==
    [fn |-> fn, pos |-> "loop", items |-> items, i |-> 1,
     sub_mod |-> NoModule, kind |-> NoKind, old_directory |-> NoDirectory]
\* a call of visit_sub_mod, at its entry
SubModFrame(sub_mod) ==
    [fn |-> "visit_sub_mod", pos |-> "entry", items |-> <<>>, i |-> 1,
     sub_mod |-> sub_mod, kind |-> NoKind, old_directory |-> NoDirectory]
\* a call of visit_sub_mod_inner, about to visit the i-th module of the kind
InnerFrame(sub_mod, kind) ==
    [fn |-> "visit_sub_mod_inner", pos |-> "loop", items |-> <<>>, i |-> 1,
     sub_mod |-> sub_mod, kind |-> kind, old_directory |-> NoDirectory]

Top == stack[Len(stack)]
Pop == SubSeq(stack, 1, Len(stack) - 1)
\* the top frame replaced by f
Replace(f) == Append(Pop, f)
\* the top frame replaced by f, and the frames of calls (none or one) pushed
Call(f, calls) == Replace(f) \o calls
Running(fn) == pc = "visit" /\ stack # <<>> /\ Top.fn = fn

\* the modules visit_*'s loops hand to visit_sub_mod
ModuleFromAst(item) ==
    ModuleNew(ItemSpan, Some(Borrowed(item.kind)), Some(Borrowed(item)), Owned(<<>>))
ModuleOutsideAst(item) ==
    ModuleNew(ItemSpan, Some(Owned(item.kind)), Some(Owned(item)), Owned(<<>>))

\* is_cfg_if
is_cfg_if(item) == item.tag = "cfg_if"

\* the parser calls among the logged calls
IsParseOp(o) == o.op = "parse"
ParseCalls(ops) ==
    LET sel == SelectSeq(ops, IsParseOp)
    IN  [i \in 1..Len(sel) |-> ParseCall(sel[i].path)]
PathsOf(mods) == [i \in 1..Len(mods) |-> mods[i].path]

\* the directory of a file with the ownership the lookup returned dropped
FileDirectoryUnowned(m) == [path |-> Parent(m.path), ownership |-> OwnedDir(None)]

\* visit_sub_mod_inner, lines 333-336 and 345-348: the directory of a file
FileDirectory(m) == [path |-> Parent(m.path), ownership |-> m.ownership]

\* visit_sub_mod_after_directory_update, lines 364-370: the call it ends with
AfterDirectoryUpdate(sub_mod) ==
    IF /\ IsSome(sub_mod.ast_mod_kind)
       /\ Unwrap(sub_mod.ast_mod_kind).cow = "Borrowed"
       /\ Unwrap(sub_mod.ast_mod_kind).v.k = "Loaded"
       /\ Unwrap(sub_mod.ast_mod_kind).v.inline = "No"
    THEN << LoopFrame("visit_mod_from_ast", Unwrap(sub_mod.ast_mod_kind).v.items) >>
    ELSE IF /\ IsSome(sub_mod.ast_mod_kind)
            /\ Unwrap(sub_mod.ast_mod_kind).cow = "Owned"
            /\ sub_mod.items.cow = "Owned"
    THEN << LoopFrame("visit_mod_outside_ast", sub_mod.items.v) >>
    ELSE <<>>

(***************************************************************************)
(* The state after ModResolver::new.                                       *)
(***************************************************************************)
NoOutcome == [tag |-> "none", err |-> NoErr]
NoPeek == [sub_mod |-> NoModule, dir |-> NoDirectory, res |-> OkNone,
           ops |-> <<>>, sess |-> {}, inserted |-> {}, parses |-> 0,
           called |-> FALSE]

Init ==
    /\ pc = "start"
    /\ recursive \in BOOLEAN
    /\ krate = <<>>
    /\ directory \in { [path |-> <<>>, ownership |-> o] :
                          o \in { OwnedDir(None), UnownedViaBlock } }
    /\ file_map = {}
    /\ parsed = { RootFile }
    /\ stack = <<>>
    /\ err = NoErr
    /\ outcome = NoOutcome
    /\ parse_log = <<>>
    /\ peek_log = <<>>
    /\ peeked = NoPeek
    /\ descended = <<>>

(***************************************************************************)
(* Actions.                                                                *)
(***************************************************************************)
\* visit_crate, lines 174-180, called with a crate: set the directory, visit
\* the root's items
VisitCrate ==
    /\ pc = "start"
    /\ pc' = "visit"
    /\ \E items \in Crates :
          /\ krate' = items
          /\ stack' = << LoopFrame("visit_mod_from_ast", items) >>
    /\ directory' = [directory EXCEPT !.path = Parent(RootFile)]
    /\ UNCHANGED <<recursive, file_map, parsed, err, outcome,
                   parse_log, peek_log, peeked, descended>>

\* visit_crate, lines 180-192: `?`, then insert the root module and return
VisitCrateReturn ==
    /\ pc = "visit"
    /\ stack = <<>>
    /\ pc' = "done"
    /\ IF err # NoErr
       THEN /\ outcome' = [tag |-> "Err", err |-> err]
            /\ file_map' = file_map
       ELSE /\ outcome' = [tag |-> "Ok", err |-> NoErr]
            /\ file_map' = MapInsert(file_map, RootFile,
                               ModuleNew(FileSpan(RootFile), None, None,
                                         Borrowed(krate)))
    /\ UNCHANGED <<recursive, krate, directory, parsed, stack, err,
                   parse_log, peek_log, peeked, descended>>

\* visit_mod_from_ast going on after every error
ReturnsResultNever(result) == FALSE

\* visit_mod_from_ast returning every error, whatever the mode
ReturnsResultAlways(result) == result # NoErr

\* visit_mod_from_ast, lines 245 and 258: result.is_err() && self.recursive
ReturnsResult(result) == result # NoErr /\ recursive

\* visit_mod_from_ast: an error of the last call returns only in recursive
\* mode; otherwise the loop goes on with the next item
VisitModFromAst ==
    /\ Running("visit_mod_from_ast")
    /\ LET f == Top
           next == [f EXCEPT !.i = f.i + 1]
       IN  IF ReturnsResult(err)
           THEN stack' = Pop /\ err' = err
           ELSE /\ err' = NoErr
                /\ stack' =
                     IF f.i > Len(f.items) THEN Pop
                     ELSE IF is_cfg_if(f.items[f.i])
                     THEN Call(next, << LoopFrame("visit_cfg_if",
                                            CfgIfVisitorMods(f.items[f.i])) >>)
                     ELSE IF f.items[f.i].tag = "mod"
                     THEN Call(next, << SubModFrame(ModuleFromAst(f.items[f.i])) >>)
                     ELSE Replace(next)
    /\ UNCHANGED <<pc, recursive, krate, directory, file_map, parsed, outcome,
                   parse_log, peek_log, peeked, descended>>

\* visit_mod_outside_ast: every call is followed by `?`
VisitModOutsideAst ==
    /\ Running("visit_mod_outside_ast")
    /\ LET f == Top
           next == [f EXCEPT !.i = f.i + 1]
       IN  stack' =
             IF err # NoErr \/ f.i > Len(f.items) THEN Pop
             ELSE IF is_cfg_if(f.items[f.i])
             THEN Call(next, << LoopFrame("visit_cfg_if",
                                    CfgIfVisitorMods(f.items[f.i])) >>)
             ELSE IF f.items[f.i].tag = "mod"
             THEN Call(next, << SubModFrame(ModuleOutsideAst(f.items[f.i])) >>)
             ELSE Replace(next)
    /\ UNCHANGED <<pc, recursive, krate, directory, file_map, parsed, err,
                   outcome, parse_log, peek_log, peeked, descended>>

\* visit_cfg_if: visit every module the visitor found, `?` after each
VisitCfgIf ==
    /\ Running("visit_cfg_if")
    /\ LET f == Top
           next == [f EXCEPT !.i = f.i + 1]
       IN  stack' =
             IF err # NoErr \/ f.i > Len(f.items) THEN Pop
             ELSE IF f.items[f.i].tag = "mod"
             THEN Call(next, << SubModFrame(ModuleOutsideAst(f.items[f.i])) >>)
             ELSE Replace(next)
    /\ UNCHANGED <<pc, recursive, krate, directory, file_map, parsed, err,
                   outcome, parse_log, peek_log, peeked, descended>>

\* visit_sub_mod, lines 267-273: save the directory, classify the module,
\* insert what was resolved and, in recursive mode, call visit_sub_mod_inner
VisitSubMod ==
    /\ Running("visit_sub_mod")
    /\ Top.pos = "entry"
    /\ \E peek \in { peek_sub_mod(Top.sub_mod, directory, parsed) } :
       LET f == Top
           res == peek.res
       IN  /\ parsed' = peek.sess
           /\ file_map' = IF res.tag = "Some"
                          THEN insert_sub_mod(file_map, res.kind)
                          ELSE file_map
           /\ parse_log' = parse_log \o ParseCalls(peek.ops)
           /\ peeked' = [sub_mod |-> f.sub_mod, dir |-> directory, res |-> res,
                         ops |-> peek.ops, sess |-> parsed,
                         inserted |-> Keys(file_map') \ Keys(file_map),
                         parses |-> Len(parse_log'),
                         called |-> TRUE]
           /\ peek_log' = Append(peek_log,
                             [item |-> Unwrap(f.sub_mod.ast_item).v,
                              dir |-> directory, tag |-> res.tag,
                              kind |-> res.kind.k,
                              paths |-> PathsOf(res.kind.mods),
                              level |-> Len(stack),
                              list |-> [k \in 1..(Len(stack) - 2) |-> stack[k].i]])
           /\ err' = res.err
           /\ stack' = IF res.tag = "Some" /\ recursive
                       THEN Call([f EXCEPT !.pos = "inner",
                                           !.old_directory = directory],
                                 << InnerFrame(f.sub_mod, res.kind) >>)
                       ELSE Pop
    /\ UNCHANGED <<pc, recursive, krate, directory, outcome, descended>>

\* visit_sub_mod ending without `self.directory = old_directory`
DirectoryKept(old_directory) == directory

\* visit_sub_mod, lines 272-275: the directory after visit_sub_mod_inner:
\* `?` leaves it as it is, otherwise it is set back to old_directory
DirectoryRestored(old_directory) ==
    IF err # NoErr THEN directory ELSE old_directory

\* visit_sub_mod, lines 272-276: `?` on visit_sub_mod_inner, then restore
VisitSubModReturn ==
    /\ Running("visit_sub_mod")
    /\ Top.pos = "inner"
    /\ stack' = Pop
    /\ directory' = DirectoryRestored(Top.old_directory)
    /\ UNCHANGED <<pc, recursive, krate, file_map, parsed, err, outcome,
                   parse_log, peek_log, peeked, descended>>

\* visit_sub_mod_inner with visit_sub_mod_after_directory_update: an inline
\* module pushes its directory; each resolved file sets the directory to
\* its own; then the module's items are visited
VisitSubModInner ==
    /\ Running("visit_sub_mod_inner")
    /\ LET f == Top
           next == [f EXCEPT !.i = f.i + 1]
           mods == f.kind.mods
       IN  IF err # NoErr
           THEN /\ stack' = Pop
                /\ UNCHANGED <<directory, descended>>
           ELSE IF f.kind.k = "Internal"
           THEN /\ stack' = IF f.i = 1
                            THEN Call(next, AfterDirectoryUpdate(f.sub_mod))
                            ELSE Pop
                /\ directory' = IF f.i = 1
                                THEN push_inline_mod_directory(directory,
                                         Unwrap(f.kind.item).v)
                                ELSE directory
                /\ UNCHANGED descended
           ELSE IF f.i > Len(mods)
           THEN /\ stack' = Pop
                /\ UNCHANGED <<directory, descended>>
           ELSE /\ stack' = Call(next, AfterDirectoryUpdate(mods[f.i].module))
                /\ directory' = FileDirectory(mods[f.i])
                /\ descended' = IF mods[f.i].module.span.of = "file"
                                THEN Append(descended, mods[f.i].path)
                                ELSE descended
    /\ UNCHANGED <<pc, recursive, krate, file_map, parsed, err, outcome,
                   parse_log, peek_log, peeked>>

Next ==
    \/ VisitCrate
    \/ VisitModFromAst
    \/ VisitModOutsideAst
    \/ VisitCfgIf
    \/ VisitSubMod
    \/ VisitSubModInner
    \/ VisitSubModReturn
    \/ VisitCrateReturn

Spec == Init /\ [][Next]_vars

\* the traversal is one synchronous call: it is never suspended
LiveSpec == Spec /\ WF_vars(Next)

TypeOK ==
    /\ pc \in {"start", "visit", "done"}
    /\ recursive \in BOOLEAN
    /\ err.kind \in {"none", "ParseError", "NotFound"}
    /\ outcome.tag \in {"none", "Ok", "Err"}

(***************************************************************************)
(* Properties.                                                             *)
(***************************************************************************)
Done == pc = "done"
ReturnedOk == Done /\ outcome.tag = "Ok"

\* every module of the tree is an inline module: no `mod foo;`, no cfg_if
RECURSIVE AllInline(_)
AllInline(items) ==
    \A i \in 1..Len(items) :
        \/ items[i].tag = "other"
        \/ /\ items[i].tag = "mod"
           /\ items[i].kind.k = "Loaded"
           /\ items[i].kind.inline = "Yes"
           /\ AllInline(items[i].kind.items)

\* the depth of inline nesting of an item list
RECURSIVE Depth(_)
Depth(items) ==
    IF \A i \in 1..Len(items) : items[i].kind.k # "Loaded" THEN 0
    ELSE 1 + Depth(items[CHOOSE i \in 1..Len(items) :
                            /\ items[i].kind.k = "Loaded"
                            /\ \A j \in 1..Len(items) :
                                 items[j].kind.k = "Loaded" =>
                                   Depth(items[j].kind.items)
                                     <= Depth(items[i].kind.items)].kind.items)

\* C1: for a crate whose modules are all inline, at any depth, the parser is
\* never called and visit_crate returns Ok with a map of exactly one entry,
\* the root file's, in recursive and in non-recursive mode.
C1_InlineOnly ==
    AllInline(krate) =>
        /\ parse_log = <<>>
        /\ Done => /\ outcome.tag = "Ok"
                   /\ Keys(file_map) = { RootFile }
                   /\ Cardinality(file_map) = 1

C1_Witness ==
    /\ ReturnedOk
    /\ recursive
    /\ AllInline(krate)
    /\ Len(krate) = MaxItems
    /\ Depth(krate) >= 2

\* the reference declarations of an item list, at any depth of inline
\* nesting and inside cfg_if, that are not under a skip marker
RECURSIVE DeclsUnder(_)
DeclsUnder(items) ==
    UNION { IF items[i].tag = "cfg_if" THEN DeclsUnder(items[i].mods)
            ELSE IF items[i].tag # "mod" \/ items[i].skip THEN {}
            ELSE IF is_mod_decl(items[i]) THEN { items[i] }
            ELSE DeclsUnder(items[i].kind.items) : i \in 1..Len(items) }

\* the declarations reachable from the crate root: those of the root AST and
\* those of every file whose content the traversal descended into
ReachableDecls ==
    DeclsUnder(krate) \cup UNION { DeclsUnder(Disk(p).items) : p \in Range(descended) }

\* declaration d was classified without error and every file it resolved to
\* has an entry in the map
Resolved(d) ==
    \E i \in 1..Len(peek_log) :
        /\ peek_log[i].item = d
        /\ peek_log[i].tag # "Err"
        /\ Range(peek_log[i].paths) \subseteq Keys(file_map)

\* C2: in recursive mode, when visit_crate returns Ok, every reachable
\* reference declaration that is not under a skip marker has been resolved
\* and inserted, those nested in inline modules included.
C2_AllReachableResolved ==
    (ReturnedOk /\ recursive) => \A d \in ReachableDecls : Resolved(d)

\* C3: with `mod a { mod b { mod c; } }` in src/x.rs (first convention,
\* stem x), `c` is resolved in src/x/a/b and src/x/a/b/c.rs is inserted.
C3_DirectoryPropagation ==
    (ReturnedOk /\ recursive /\ <<"src", "x.rs">> \in Range(descended)) =>
        /\ <<"src", "x", "a", "b", "c.rs">> \in Keys(file_map)
        /\ \E i \in 1..Len(peek_log) :
              /\ peek_log[i].item = Decl("c")
              /\ peek_log[i].dir.path = <<"src", "x", "a", "b">>

\* C4: the crate `mod net;`, with src/net.rs holding `mod tcp;` and
\* src/net/tcp.rs on disk, resolves in recursive mode to exactly three
\* entries, and `mod tcp;` is looked up with the relative offset `net`.
C4_Chain ==
    (Done /\ recursive /\ krate = << Decl("net") >>) =>
        /\ outcome.tag = "Ok"
        /\ Cardinality(file_map) = 3
        /\ Keys(file_map) = { RootFile, <<"src", "net.rs">>,
                              <<"src", "net", "tcp.rs">> }
        /\ \E i \in 1..Len(peek_log) :
              /\ peek_log[i].item = Decl("tcp")
              /\ peek_log[i].dir = [path |-> <<"src">>,
                                    ownership |-> OwnedDir(Some("net"))]
              /\ peek_log[i].paths = << <<"src", "net", "tcp.rs">> >>

C4_Witness ==
    /\ ReturnedOk
    /\ recursive
    /\ krate = << Decl("net") >>
    /\ descended = << <<"src", "net.rs">>, <<"src", "net", "tcp.rs">> >>

\* the last classified module is a reference declaration with a path override
PeekedOverride ==
    /\ peeked.called
    /\ ~contains_skip(OuterAttrs(peeked.sub_mod))
    /\ is_mod_decl(Unwrap(peeked.sub_mod.ast_item).v)
    /\ IsSome(OuterAttrs(peeked.sub_mod).path)
OverridePath == Push(peeked.dir.path, Unwrap(OuterAttrs(peeked.sub_mod).path))

\* C5: a declaration with a path override looks at <current dir>/<override>
\* only: no conditional path is scanned, the default path is neither looked
\* up nor parsed, the result is None, External for that path or an error
\* naming it, and no other file is inserted for the declaration.
C5_OverridePrecedence ==
    PeekedOverride =>
        /\ \A o \in Range(peeked.ops) :
              o.path = OverridePath /\ o.op \in {"is_file_parsed", "parse"}
        /\ \/ peeked.res.tag = "None"
           \/ /\ peeked.res.tag = "Some"
              /\ peeked.res.kind.k = "External"
              /\ peeked.res.kind.mods[1].path = OverridePath
           \/ /\ peeked.res.tag = "Err"
              /\ peeked.res.err.file = OverridePath
        /\ peeked.inserted \subseteq { OverridePath }

\* an override was followed although the conventional file exists and the
\* declaration also names a conditional path that exists
C5_Witness ==
    /\ PeekedOverride
    /\ peeked.res.tag = "Some"
    /\ peeked.inserted = { OverridePath }
    /\ OuterAttrs(peeked.sub_mod).cfg # <<>>
    /\ Exists(Push(peeked.dir.path, OuterAttrs(peeked.sub_mod).cfg[1]))
    /\ default_submod_path(ModuleName(peeked.sub_mod), None, peeked.dir.path).ok

\* the last classified module is a reference declaration without override
PeekedConvention ==
    /\ peeked.called
    /\ ~contains_skip(OuterAttrs(peeked.sub_mod))
    /\ is_mod_decl(Unwrap(peeked.sub_mod.ast_item).v)
    /\ ~IsSome(OuterAttrs(peeked.sub_mod).path)
\* its conditional paths, resolved against the directory of the call
Candidate(i) == Push(peeked.dir.path, OuterAttrs(peeked.sub_mod).cfg[i])
\* the result of the default-path lookup of the call
PeekedLookup ==
    default_submod_path(ModuleName(peeked.sub_mod),
                        IF peeked.dir.ownership.own = "Owned"
                        THEN peeked.dir.ownership.relative ELSE None,
                        peeked.dir.path)

\* its only conditional path exists and is malformed, and no default file
PeekedMalformedCandidate ==
    /\ PeekedConvention
    /\ Len(OuterAttrs(peeked.sub_mod).cfg) = 1
    /\ Exists(Candidate(1))
    /\ Candidate(1) \notin peeked.sess
    /\ ParseTag(Candidate(1)) = "ParseError"
    /\ ~PeekedLookup.ok

\* C6: a declaration whose only conditional-path candidate exists but has a
\* syntax error, and whose default file is missing, fails with ParseError
\* naming the candidate.
C6_MalformedCandidateFatal ==
    PeekedMalformedCandidate =>
        /\ peeked.res.tag = "Err"
        /\ peeked.res.err.kind = "ParseError"
        /\ peeked.res.err.file = Candidate(1)

EntriesOf(key) == { e \in file_map : e.key = key }
HasRepeat(seq) == \E i, j \in 1..Len(seq) : i < j /\ seq[i] = seq[j]

\* C7: the map holds at most one entry per file, and every file a
\* declaration resolved to has exactly one entry, however often the file
\* occurs among the declaration's candidates or among other declarations'.
C7_OneEntryPerFile ==
    /\ \A e1, e2 \in file_map : e1.key = e2.key => e1 = e2
    /\ \A i \in 1..Len(peek_log) :
          peek_log[i].tag = "Some" =>
              \A p \in Range(peek_log[i].paths) : Cardinality(EntriesOf(p)) = 1

\* a declaration resolved to a list naming one file twice, a file that an
\* earlier declaration had resolved to as well
C7_Witness ==
    \E i, j \in 1..Len(peek_log) :
        /\ i < j
        /\ HasRepeat(peek_log[j].paths)
        /\ Range(peek_log[i].paths) \cap Range(peek_log[j].paths) # {}
        /\ \A p \in Range(peek_log[j].paths) : Cardinality(EntriesOf(p)) = 1

\* C8: an entry of the map is never removed and its module never replaced,
\* the final insertion of the root module included.
C8_Monotone == [][\A e \in file_map : e \in file_map']_vars

\* C9 as claimed: the parser is called at most once for each path.
C9_CalledAtMostOnce == ~HasRepeat(PathsOf(parse_log))

\* C9 as amended: once the parser has returned Ok for a path it is never
\* called for that path again; only a path whose parse failed is parsed twice.
C9_ParsedAtMostOnce ==
    \A i, j \in 1..Len(parse_log) :
        (i < j /\ parse_log[i].path = parse_log[j].path) =>
            parse_log[i].tag # "Ok"

\* two declarations resolved to one file, which was parsed, once
C9_Witness ==
    \E i, j \in 1..Len(peek_log) :
        /\ i < j
        /\ \E p \in Range(peek_log[i].paths) \cap Range(peek_log[j].paths) :
              Cardinality({ k \in 1..Len(parse_log) : parse_log[k].path = p }) = 1

\* C10: visit_crate returns, and no file is descended into twice.
C10_Terminates == <>Done /\ [](~HasRepeat(descended))

\* the traversal returned after visiting src/cyc.rs and src/q.rs, which
\* declare each other, themselves and the crate root
C10_Witness ==
    /\ Done
    /\ recursive
    /\ <<"src", "cyc.rs">> \in Range(descended)
    /\ <<"src", "q.rs">> \in Range(descended)
    /\ \E i \in 1..Len(peek_log) :
          peek_log[i].item = PathDecl("cyc", <<"cyc.rs">>) /\ peek_log[i].tag = "None"

\* the conditional paths of the last call that name a file which exists and
\* parses
ParsableCandidates ==
    { Candidate(i) : i \in { k \in 1..Len(OuterAttrs(peeked.sub_mod).cfg) :
                               /\ Exists(Candidate(k))
                               /\ ParseTag(Candidate(k)) = "Ok" } }

\* C11: a declaration with conditional paths, one of them at least naming a
\* file that exists and parses, and with no default file, resolves without
\* error to MultiExternal, the list naming every such candidate, and each
\* of them has an entry in the map.
C11_ConditionalOnly ==
    (PeekedConvention /\ ~PeekedLookup.ok /\ ParsableCandidates # {}) =>
        /\ peeked.res.tag = "Some"
        /\ peeked.res.kind.k = "MultiExternal"
        /\ peeked.res.err = NoErr
        /\ Range(PathsOf(peeked.res.kind.mods)) = ParsableCandidates
        /\ ParsableCandidates \subseteq Keys(file_map)

\* `mod feat;` with the conditional paths feat_a.rs and feat_b.rs, neither
\* parsed before, and no src/feat.rs: both files were entered by the call
C11_Witness ==
    /\ PeekedConvention
    /\ ~PeekedLookup.ok
    /\ ModuleName(peeked.sub_mod) = "feat"
    /\ PathsOf(peeked.res.kind.mods) = << <<"src", "feat_a.rs">>, <<"src", "feat_b.rs">> >>
    /\ peeked.inserted = { <<"src", "feat_a.rs">>, <<"src", "feat_b.rs">> }
    /\ ReturnedOk

LastPeek == peek_log[Len(peek_log)]

\* C12: in recursive mode the first classification that fails is the last
\* one (no sibling or descendant is classified or parsed after it), and
\* visit_crate returns that error and no map.
C12_RecursiveAbort ==
    recursive =>
        /\ \A i \in 1..Len(peek_log) :
              peek_log[i].tag = "Err" =>
                  /\ i = Len(peek_log)
                  /\ peeked.res.tag = "Err"
                  /\ Len(parse_log) = peeked.parses
                  /\ Done => outcome = [tag |-> "Err", err |-> peeked.res.err]
        /\ (Done /\ outcome.tag = "Err") =>
              /\ peek_log # <<>>
              /\ LastPeek.tag = "Err"

\* recursive mode: a declaration inside a parsed file (two levels of calls
\* below the root's list at least) failed, with a sibling after it in that
\* file and one after its ancestor in the root, and visit_crate returned
C12_Witness ==
    /\ recursive
    /\ Done
    /\ outcome.tag = "Err"
    /\ Len(krate) = 2
    /\ peek_log # <<>>
    /\ LastPeek.item = Decl("nofile")
    /\ LastPeek.level > 2
    /\ peek_log[1].item = Decl("deep")

\* the module declarations of an item list, those of its cfg_if invocations
\* included, in source order
RECURSIVE RootDeclarations(_)
RootDeclarations(items) ==
    IF items = <<>> THEN <<>>
    ELSE LET it == items[1]
             here == IF it.tag = "mod" THEN << it >>
                     ELSE IF it.tag = "cfg_if"
                     THEN SelectSeq(it.mods, LAMBDA d : d.tag = "mod")
                     ELSE <<>>
         IN  here \o RootDeclarations(Tail(items))

PeekedItems == [i \in 1..Len(peek_log) |-> peek_log[i].item]
SomeFailed == \E i \in 1..Len(peek_log) : peek_log[i].tag = "Err"

\* C13: in non-recursive mode every module declaration of the root, direct
\* or extracted from a cfg_if invocation, is classified, whatever
\* declaration failed before it.
C13_SiblingsContinue ==
    (~recursive /\ Done) => PeekedItems = RootDeclarations(krate)

\* C14 as claimed: in non-recursive mode a classification error is the last
\* classification and visit_crate returns it.
C14_StopsOnFirstError ==
    (~recursive /\ Done /\ SomeFailed) =>
        /\ outcome.tag = "Err"
        /\ LastPeek.tag = "Err"

\* C14 as amended: in non-recursive mode visit_crate returns Ok and the map,
\* every direct module item of the root is classified, and every file a
\* classification resolved to has its entry, the root file included.
C14_NonRecursiveReturnsOk ==
    (~recursive /\ Done) =>
        /\ outcome = [tag |-> "Ok", err |-> NoErr]
        /\ RootFile \in Keys(file_map)
        /\ \A k \in 1..Len(krate) :
              krate[k].tag = "mod" => krate[k] \in Range(PeekedItems)
        /\ \A i \in 1..Len(peek_log) :
              Range(peek_log[i].paths) \subseteq Keys(file_map)

\* non-recursive mode: the first declaration failed, the second one was
\* resolved and entered, and visit_crate returned
C14_Witness ==
    /\ ~recursive
    /\ Done
    /\ Len(peek_log) = 2
    /\ peek_log[1].tag = "Err"
    /\ peek_log[2].tag = "Some"
    /\ peek_log[2].kind = "External"
    /\ peeked.inserted # {}

\* a call of visit_sub_mod returns Ok in this step
SubModReturnsOk ==
    /\ Running("visit_sub_mod")
    /\ Len(stack') < Len(stack)
    /\ err' = NoErr
\* the directory at the entry of the call of visit_sub_mod that is running
EntryDirectory == IF Top.pos = "entry" THEN directory ELSE Top.old_directory

\* C15: when visit_sub_mod returns Ok the directory (path and ownership) is
\* the one at its entry, and all declarations of one item list are
\* classified under the same directory.
C15_SaveRestore ==
    /\ [][SubModReturnsOk => directory' = EntryDirectory]_vars
    /\ [](\A i, j \in 1..Len(peek_log) :
             peek_log[i].list = peek_log[j].list =>
                 peek_log[i].dir = peek_log[j].dir)

\* two declarations of one list were classified, and between them a
\* declaration of a file the first one resolved to, under another directory;
\* visit_sub_mod is about to return Ok from a directory that is not the one
\* at its entry
C15_Witness ==
    /\ Running("visit_sub_mod")
    /\ Top.pos = "inner"
    /\ err = NoErr
    /\ directory # Top.old_directory
    /\ \E i, k, j \in 1..Len(peek_log) :
          /\ i < k /\ k < j
          /\ peek_log[i].list = peek_log[j].list
          /\ peek_log[k].dir # peek_log[i].dir

\* visit_sub_mod_inner is about to call push_inline_mod_directory
InlinePush ==
    /\ Running("visit_sub_mod_inner")
    /\ Top.kind.k = "Internal"
    /\ Top.i = 1
    /\ err = NoErr
InlineItem == Unwrap(Top.kind.item).v

\* C16: with a path override the directory becomes <current>/<override>,
\* owned without offset; otherwise a pending offset r is pushed, then the
\* module's name, and no pending offset remains in any case.
C16_PushInline ==
    [][InlinePush =>
         /\ directory'.path =
               IF IsSome(InlineItem.path)
               THEN directory.path \o Unwrap(InlineItem.path)
               ELSE IF directory.ownership.own = "Owned"
                       /\ IsSome(directory.ownership.relative)
               THEN directory.path \o directory.ownership.relative
                                   \o << InlineItem.name >>
               ELSE directory.path \o << InlineItem.name >>
         /\ directory'.ownership.relative = None
         /\ (IsSome(InlineItem.path) \/ IsSome(directory.ownership.relative))
               => directory'.ownership = OwnedDir(None)]_vars

\* the inline module `a` of src/x.rs was entered with the offset x pending:
\* the directory is src/x/a, owned without offset
C16_Witness ==
    /\ Running("visit_sub_mod_inner")
    /\ Top.kind.k = "Internal"
    /\ Top.i = 2
    /\ LastPeek.dir = [path |-> <<"src">>, ownership |-> OwnedDir(Some("x"))]
    /\ directory = [path |-> <<"src", "x", "a">>, ownership |-> OwnedDir(None)]

\* visit_sub_mod is entered with a module that carries the skip marker
VisitsSkipped ==
    /\ Running("visit_sub_mod")
    /\ Top.pos = "entry"
    /\ contains_skip(OuterAttrs(Top.sub_mod))

\* C17: for a module with the skip marker peek_sub_mod returns None without
\* any lookup, and visit_sub_mod returns leaving the map, the directory and
\* the parsed files as they were, without descending.
C17_SkipMarker ==
    [][VisitsSkipped =>
         /\ peeked'.res = OkNone
         /\ peeked'.ops = <<>>
         /\ file_map' = file_map
         /\ directory' = directory
         /\ parsed' = parsed
         /\ parse_log' = parse_log
         /\ descended' = descended
         /\ err' = NoErr
         /\ stack' = Pop]_vars

\* recursive mode: the last module classified is an inline module with the
\* skip marker and a declaration inside, and visit_crate returned with no
\* entry but the root's
C17_Witness ==
    /\ recursive
    /\ ReturnedOk
    /\ peeked.called
    /\ contains_skip(OuterAttrs(peeked.sub_mod))
    /\ ~is_mod_decl(Unwrap(peeked.sub_mod.ast_item).v)
    /\ peeked.res = OkNone
    /\ Keys(file_map) = { RootFile }

\* the scan of the conditional paths of the last call
PeekedScan == find_mods_outside_of_ast(peeked.sub_mod, peeked.dir, peeked.sess)
\* the last call found a default file that was not parsed yet
PeekedDefaultUnparsed ==
    /\ PeekedConvention
    /\ PeekedLookup.ok
    /\ ~is_file_parsed(PeekedScan.sess, PeekedLookup.file_path)

\* C18: when the default file is not parsed yet and has a syntax error, the
\* result is ParseError naming the default path, whether or not conditional
\* paths were resolved, and the visit enters nothing in the map.
C18_DefaultParseErrorFatal ==
    (PeekedDefaultUnparsed /\ ParseTag(PeekedLookup.file_path) = "ParseError") =>
        /\ peeked.res = Failed(ResolutionError(ModuleName(peeked.sub_mod),
                                               "ParseError",
                                               PeekedLookup.file_path))
        /\ peeked.inserted = {}

\* `mod bad;` with the conditional path feat_a.rs: feat_a.rs was parsed by
\* the call, src/bad.rs has a syntax error, and feat_a.rs has no entry
C18_Witness ==
    /\ PeekedDefaultUnparsed
    /\ ParseTag(PeekedLookup.file_path) = "ParseError"
    /\ PathsOf(PeekedScan.mods) = << <<"src", "feat_a.rs">> >>
    /\ ~is_file_parsed(peeked.sess, <<"src", "feat_a.rs">>)
    /\ <<"src", "feat_a.rs">> \notin Keys(file_map)
    /\ Done

\* the entry for the default path that holds the declaration as it is
PeekedDeclared ==
    [path |-> PeekedLookup.file_path,
     ownership |-> PeekedLookup.dir_ownership,
     module |-> peeked.sub_mod]

\* C19: when the default file is not parsed yet and its parse fails for
\* another reason than a syntax error, the result is NotFound naming the
\* default path if no conditional path was resolved, and otherwise
\* MultiExternal of the resolved candidates followed by the default path
\* with the declaring module itself, without error.
C19_DefaultUnreadable ==
    (PeekedDefaultUnparsed /\ ParseTag(PeekedLookup.file_path) = "Other") =>
        IF PeekedScan.mods = <<>>
        THEN peeked.res = Failed(ResolutionError(ModuleName(peeked.sub_mod),
                                                 "NotFound",
                                                 PeekedLookup.file_path))
        ELSE /\ peeked.res = OkSome(MultiExternal(
                                Append(PeekedScan.mods, PeekedDeclared)))
             /\ peeked.res.err = NoErr

\* `mod un;` with the conditional path feat_a.rs, src/un.rs unreadable: the
\* call resolved to feat_a.rs and un.rs and entered both
C19_Witness ==
    /\ PeekedDefaultUnparsed
    /\ ParseTag(PeekedLookup.file_path) = "Other"
    /\ PathsOf(peeked.res.kind.mods) = << <<"src", "feat_a.rs">>, <<"src", "un.rs">> >>
    /\ peeked.inserted = { <<"src", "feat_a.rs">>, <<"src", "un.rs">> }
    /\ peeked.res.kind.mods[2].module = peeked.sub_mod
    /\ Done

\* C20: with a path override resolving to a path, the result is None
\* without a parser call if the path is parsed already; otherwise the path
\* is parsed, and the result is External(path, Owned{relative: None}, a new
\* module) on success, ParseError{path} on a syntax error and
\* NotFound{path} on any other failure, with the declaring module's name.
C20_OverrideOutcomes ==
    PeekedOverride =>
        IF is_file_parsed(peeked.sess, OverridePath)
        THEN /\ peeked.res = OkNone
             /\ ParseCalls(peeked.ops) = <<>>
        ELSE /\ ParseCalls(peeked.ops) = << ParseCall(OverridePath) >>
             /\ CASE ParseTag(OverridePath) = "Ok" ->
                       /\ peeked.res.tag = "Some"
                       /\ peeked.res.err = NoErr
                       /\ peeked.res.kind.k = "External"
                       /\ Len(peeked.res.kind.mods) = 1
                       /\ LET m == peeked.res.kind.mods[1]
                          IN  /\ m.path = OverridePath
                              /\ m.ownership = OwnedDir(None)
                              /\ m.module.span = FileSpan(OverridePath)
                              /\ m.module.items = Owned(Disk(OverridePath).items)
                              /\ m.module.ast_mod_kind = Some(Owned(Unloaded))
                              /\ m.module.ast_item = peeked.sub_mod.ast_item
                  [] ParseTag(OverridePath) = "ParseError" ->
                       /\ peeked.res.tag = "Err"
                       /\ peeked.res.err =
                             [kind |-> "ParseError",
                              module |-> ModuleName(peeked.sub_mod),
                              file |-> OverridePath]
                  [] OTHER ->
                       /\ peeked.res.tag = "Err"
                       /\ peeked.res.err =
                             [kind |-> "NotFound",
                              module |-> ModuleName(peeked.sub_mod),
                              file |-> OverridePath]

\* one declaration with the override feat_a.rs resolved to External, and a
\* second declaration with the same override then gave None: the file was
\* parsed once
C20_Witness ==
    /\ PeekedOverride
    /\ Len(peek_log) = 2
    /\ peek_log[1].item = PathDecl("net", <<"feat_a.rs">>)
    /\ peek_log[1].kind = "External"
    /\ peek_log[2].item = PathDecl("net", <<"feat_a.rs">>)
    /\ peek_log[2].tag = "None"
    /\ PathsOf(parse_log) = << <<"src", "feat_a.rs">> >>

\* C21: a MultiExternal list names each file at most once.
C21_NoDuplicatePaths ==
    \A i \in 1..Len(peek_log) :
        peek_log[i].kind = "MultiExternal" => ~HasRepeat(peek_log[i].paths)

\* the files the parser returned Ok for during the run
ParsedOk == { parse_log[k].path : k \in { n \in 1..Len(parse_log) :
                                             parse_log[n].tag = "Ok" } }
\* the map's entry of the file holds the module built from its content
HoldsParsedContent(path) ==
    \E e \in file_map :
        /\ e.key = path
        /\ e.module.span = FileSpan(path)
        /\ e.module.items = Owned(Disk(path).items)
        /\ e.module.ast_mod_kind = Some(Owned(Unloaded))

\* C22: when recursive visit_crate returns Ok, every file parsed during the
\* run has an entry in the map, and the entry holds the module built from
\* the file's content, not the declaring item.
C22_ParsedFilesEntered ==
    (recursive /\ ReturnedOk) => \A p \in ParsedOk : HoldsParsedContent(p)

\* recursive visit_crate returned Ok after a declaration resolved to a list
\* naming a file twice, with its parsed module first and the declaring item
\* second, and after two files at least were parsed
C22_Witness ==
    /\ recursive
    /\ ReturnedOk
    /\ Cardinality(ParsedOk) >= 2
    /\ peeked.res.kind.k = "MultiExternal"
    /\ \E i, j \in 1..Len(peeked.res.kind.mods) :
          /\ i < j
          /\ peeked.res.kind.mods[i].path = peeked.res.kind.mods[j].path
          /\ peeked.res.kind.mods[i].module.span.of = "file"
          /\ peeked.res.kind.mods[j].module = peeked.sub_mod
          /\ peeked.res.kind.mods[i].path \in ParsedOk

====
